---------------------------- MODULE Spec2Model ----------------------------
(***************************************************************************)
(* Model of portofolio/js/script.js: the page script that starts three     *)
(* particle engines on the canvas "particles":                             *)
(*   - the top-level engine (lines 79-135),                                *)
(*   - the first  particles.js animator, an IIFE (lines 177-416),          *)
(*   - the second particles.js animator, an IIFE (lines 517-756).          *)
(* The two animators are textually identical; the model indexes their      *)
(* private state by the instance number 1 or 2.  They share the page:      *)
(* the document, the window (and window._particlesResizeTimer), the        *)
(* canvas and the events delivered to it.                                  *)
(*                                                                         *)
(* Numbers.  JavaScript numbers are doubles; the model keeps lengths,      *)
(* velocities, sizes and opacities as integers counted in thousandths      *)
(* (Milli), rounding every product and quotient to the nearest thousandth  *)
(* the way the double rounds to its nearest value.  Particle counts,       *)
(* surface dimensions in CSS pixels and areas are exact integers.          *)
(*                                                                         *)
(* Specifications.  Spec is the page with its events, timers and frames.   *)
(* RenderSpec applies render() and connectParticles() to small scenes,     *)
(* PointerSpec delivers longer runs of pointer and touch events,           *)
(* CounterSpec runs the '.stat-number' counters of lines 456-464, and      *)
(* FilterSpec clicks the project filter buttons and types into the search  *)
(* box of lines 466-488.                                                   *)
(***************************************************************************)
EXTENDS Integers, Sequences, FiniteSets, TLC

VARIABLES
  pc,               \* "start": script not yet run; "loaded"; "thrown": script aborted
  canvasPresent,    \* does document.getElementById('particles') find an element
  visible,          \* document.visibilityState === 'visible'
  surface,          \* [w, h]: canvas.clientWidth/Height = window.innerWidth/Height
  particlesArrayLen,\* top-level engine: particlesArray.length
  rafAnimate,       \* top-level engine: outstanding animateParticles frame callbacks
  resizeListeners,  \* window 'resize' listeners, in registration order
  canvasListeners,  \* animators whose pointer and touch listeners are on the canvas
  docListeners,     \* animators whose 'visibilitychange' listener is on the document
  particles,        \* per animator: the particle collection
  width,            \* per animator: logical surface width  (CSS px)
  height,           \* per animator: logical surface height (CSS px)
  mouse,            \* per animator: the pointer state
  isRunning,        \* per animator: the running flag
  rafLoop,          \* per animator: outstanding loop() frame callbacks
  rafMouse,         \* per animator: is the rafMouse frame callback outstanding
  timeouts,         \* the window's pending setTimeout timers
  resizeTimer,      \* window._particlesResizeTimer (0: undefined)
  nextHandle,       \* next setTimeout handle
  resizeSeen,       \* has a window resize event been delivered
  resizedWhileHidden, \* has one been delivered since the page was hidden, the page still hidden
  lastTask,         \* the task the page ran last
  lastPointer,      \* the last pointer or touch event a handler acted on
  lastResize,       \* per animator: <<length before, target count>> of its last resize()
  sinceResize,      \* ms since the last window resize event, saturating at the debounce delay
  burstResizes,     \* per animator: resize() calls by its debounce timer since the burst of resize events began
  nUpdates,         \* per animator: number of update() calls so far
  nEvents,          \* number of page events delivered so far
  eventBudget,      \* number of page events the run delivers at most
  particleSystem,   \* the animator whose debug object is window._particleSystem (0: undefined)
  stats,            \* the '.stat-number' elements and their counters (lines 456-464)
  scene,            \* particle positions <<x, y>> (whole px) handed to a renderer
  drawn,            \* the renderer that ran last and the lines it stroked
  projectUI         \* filter buttons' 'active' classes, cards' style.display, search box (lines 466-488)

vars == <<pc, canvasPresent, visible, surface, particlesArrayLen, rafAnimate,
          resizeListeners, canvasListeners, docListeners, particles, width,
          height, mouse, isRunning, rafLoop, rafMouse, timeouts, resizeTimer,
          nextHandle, resizeSeen, resizedWhileHidden, lastTask, lastPointer,
          lastResize, sinceResize, burstResizes, nUpdates, nEvents, eventBudget,
          particleSystem, stats, scene, drawn, projectUI>>

\* what the animators' event handlers, timers and frames never touch
pageVars == <<eventBudget, particleSystem, stats, scene, drawn, projectUI>>

-----------------------------------------------------------------------------
(* Bounds of the model.                                                    *)

\* update() calls per animator
MaxUpdates == 3
\* page events (pointer, touch, visibility, window resize) per run
MaxEvents == 2

\* the Math.random streams a resize() may draw from
Seeds == {1}

\* The animator instances: the IIFE at line 177 and the IIFE at line 517.
Instances == {1, 2}

-----------------------------------------------------------------------------
(* Fixed-point arithmetic.                                                 *)

Milli == 10^3

Abs(a) == IF a < 0 THEN -a ELSE a

Min(a, b) == IF a < b THEN a ELSE b

Max(a, b) == IF a > b THEN a ELSE b

\* a / b for b > 0, rounded to the nearest integer, ties to even (the rounding
\* of an IEEE-754 double operation, at the model's resolution).
RoundDiv(a, b) ==
  LET q == a \div b
      r == a % b
  IN  IF 2 * r < b THEN q
      ELSE IF 2 * r > b THEN q + 1
      ELSE IF q % 2 = 0 THEN q ELSE q + 1

\* Math.round of the rational a / b, b > 0: nearest integer, ties towards +infinity.
MathRound(a, b) == (2 * a + b) \div (2 * b)

\* Math.floor of the rational a / b, b > 0.
MathFloor(a, b) == a \div b

RECURSIVE SqrtSearch(_, _, _)
SqrtSearch(n, lo, hi) ==
  IF lo >= hi THEN lo
  ELSE LET mid == (lo + hi + 1) \div 2
       IN  IF mid * mid <= n THEN SqrtSearch(n, mid, hi)
           ELSE SqrtSearch(n, lo, mid - 1)

\* Math.sqrt of n >= 0, rounded to the nearest integer.
MathSqrt(n) ==
  LET s == SqrtSearch(n, 0, 46340)
  IN  IF n - s * s > s THEN s + 1 ELSE s

-----------------------------------------------------------------------------
(* CONFIG (lines 183-194).  Lengths in CSS px unless marked Milli.         *)

baseCount == 60
connectDistance == 120
\* maxSize 2.2, minSize 0.8, speedRange 0.6, particleAlpha 0.7, in thousandths
maxSize == 2200
minSize == 800
speedRange == 600
particleAlpha == 700
\* CONFIG.lineAlpha 0.10, thousandths
lineAlpha == 100
mouseRadius == 120
repel == TRUE

\* refArea = 1366 * 768 (line 220)
refWidth == 1366
refHeight == 768
refArea == refWidth * refHeight

\* the wrap margin of update(), px (lines 280-283)
wrapMargin == 10
\* the threshold of connectParticles(), px (line 105)
engineConnectDistance == 120
\* the opacity 0.1 of connectParticles()'s stroke, thousandths (line 106)
engineLineAlpha == 100
\* the delay of the resize debounce, ms (line 393)
resizeDelay == 120
\* alpha's lower limit 0.4 in createParticle, thousandths (line 244)
alphaMin == 400

-----------------------------------------------------------------------------
(* The page's environment.                                                 *)

\* Layout sizes <<w, h>> of the full-viewport canvas in CSS px, by growing
\* area: 0.3, 5/6, 1, 7/6, 1.5, 2.1 and 5 times the reference area.  Their
\* target counts are 30, 50, 60, 70, 90, 126 and 132.
Layouts ==
  << <<683, 461>>, <<1366, 640>>, <<1366, 768>>, <<1366, 896>>,
     <<1366, 1152>>, <<1366, 1610>>, <<6830, 768>> >>

Surfaces == {Layouts[k] : k \in 1..Len(Layouts)}

\* The layouts the page is loaded at: the reference area, 1.5 and 2.1 times
\* it.  The others are reached by resizing the window.
LoadSurfaces == {Layouts[k] : k \in {3, 5, 6}}

\* Dragging the window's edge delivers a resize event at each layout the
\* drag passes: the layouts next to s.
NextLayouts(s) ==
  {Layouts[k] : k \in {j \in 1..Len(Layouts) :
                         \E d \in {-1, 1} : j + d \in 1..Len(Layouts) /\ Layouts[j + d] = s}}

\* canvas.getBoundingClientRect(): the canvas sits at the viewport's origin.
canvasRect == [left |-> 0, top |-> 0]

\* Pointer positions of mouse and touch events, client coordinates in Milli:
\* the centre of the canvas and its upper left quarter point.
PointerEvents(s) ==
  { [clientX |-> (s[1] * Milli) \div 2, clientY |-> (s[2] * Milli) \div 2],
    [clientX |-> (s[1] * Milli) \div 4, clientY |-> (s[2] * Milli) \div 4] }

\* Math.random(): the k-th draw of stream `seed`, as a numerator over RandDen,
\* so that the draw is Rand(seed, k) / RandDen in [0, 1).
RandDen == 16

Rand(seed, k) == ((((k + seed * 33) * (k + 14)) + seed) % 127) % RandDen

\* the absent value null, and a present number
Null == << >>

Some(v) == << v >>


-----------------------------------------------------------------------------
(* resize() and createParticle() (lines 211-246).                          *)

\* canvas.clientWidth || window.innerWidth (lines 212-213)
ClientOr(client, inner) == IF client # 0 THEN client ELSE inner

\* The count of line 221 with Math.floor in place of Math.round.
TargetCountFloor(w, h) ==
  LET area == w * h
      low  == 2 * area < refArea
      high == 10 * area > 22 * refArea
      num  == IF low THEN 1 ELSE IF high THEN 22 ELSE area
      den  == IF low THEN 2 ELSE IF high THEN 10 ELSE refArea
  IN  MathFloor(baseCount * num, den)

\* const count = Math.round(CONFIG.baseCount * Math.max(0.5, Math.min(2.2, area / refArea)))
\* (lines 219-221), with the clamped ratio kept as the fraction num / den.
TargetCount(w, h) ==
  LET area == w * h
      low  == 2 * area < refArea
      high == 10 * area > 22 * refArea
      num  == IF low THEN 1 ELSE IF high THEN 22 ELSE area
      den  == IF low THEN 2 ELSE IF high THEN 10 ELSE refArea
  IN  MathRound(baseCount * num, den)

RECURSIVE BinadeBelow(_, _)
\* the largest power of two p * 2^k that is less than n
BinadeBelow(n, p) == IF 2 * p < n THEN BinadeBelow(n, 2 * p) ELSE p

\* Is length > count * 1.4 (line 228), as JavaScript computes it.  The double
\* nearest 1.4 is 1.4 - 0.4 * 2^-52, so count * 1.4 is 7*count/5 less
\* 0.4 * count * 2^-52 before rounding.  Where 7*count/5 is an integer N, the
\* product rounds to the double below N when that deficit exceeds half the
\* spacing of the doubles below N, 2^e / 2^53 with 2^e < N <= 2^(e+1), that is
\* when 4 * count > 5 * 2^e (45 * 1.4 is 62.99999999999999); otherwise to N.
ProductRoundsDown(count) ==
  /\ count % 5 = 0
  /\ count > 0
  /\ 4 * count > 5 * BinadeBelow((7 * count) \div 5, 1)

\* Truncation only above twice the target
ExceedsTwice(length, count) == length > 2 * count

\* Truncation whenever the collection is larger than the target, without the
\* 1.4 band of line 228.
ExceedsTarget(length, count) == length > count

\* particles.length > count * 1.4 (line 228), the product as the double it is
ExceedsBand(length, count) ==
  \/ 5 * length > 7 * count
  \/ 5 * length = 7 * count /\ ProductRoundsDown(count)

\* rand(min, max) (lines 233-235), r the draw's numerator
rand(min, max, r) == RoundDiv(r * (max - min), RandDen) + min

\* (Math.random() - 0.5) * CONFIG.speedRange (lines 242-243)
RandomVelocity(r) == RoundDiv((2 * r - RandDen) * speedRange, 2 * RandDen)

\* createParticle() (lines 237-246): the j-th particle a resize() creates,
\* drawing six numbers from stream `seed`; w, h are the animator's width, height.
createParticle(w, h, seed, j) ==
  [ x     |-> RoundDiv(Rand(seed, 6 * j) * w * Milli, RandDen),
    y     |-> RoundDiv(Rand(seed, 6 * j + 1) * h * Milli, RandDen),
    size  |-> rand(minSize, maxSize, Rand(seed, 6 * j + 2)),
    vx    |-> RandomVelocity(Rand(seed, 6 * j + 3)),
    vy    |-> RandomVelocity(Rand(seed, 6 * j + 4)),
    alpha |-> rand(alphaMin, particleAlpha, Rand(seed, 6 * j + 5)) ]

\* The reconciliation of resize() (lines 223-230).
Reconcile(ps, count, w, h, seed) ==
  IF Len(ps) = 0
    THEN [k \in 1..count |-> createParticle(w, h, seed, k - 1)]
  ELSE IF Len(ps) < count
    THEN ps \o [k \in 1..(count - Len(ps)) |-> createParticle(w, h, seed, k - 1)]
  ELSE IF ExceedsBand(Len(ps), count)
    THEN SubSeq(ps, 1, count)
  ELSE ps

-----------------------------------------------------------------------------
(* update() (lines 271-312).                                               *)

\* Wrap without its second statement: nothing brings back a coordinate that is
\* beyond the far edge.
WrapLowOnly(c, dim) ==
  IF c < -(wrapMargin * Milli) THEN (dim + wrapMargin) * Milli ELSE c

\* if (p.x < -10) p.x = width + 10; if (p.x > width + 10) p.x = -10;
\* (lines 280-283), c a coordinate in Milli and dim the dimension in px.
Wrap(c, dim) ==
  LET c1 == IF c < -(wrapMargin * Milli) THEN (dim + wrapMargin) * Milli ELSE c
  IN  IF c1 > (dim + wrapMargin) * Milli THEN -(wrapMargin * Milli) ELSE c1

\* mouse.active && mouse.x !== null (line 286)
PointerApplies(m) == m.active /\ m.x # Null

\* Math.sqrt(dx * dx + dy * dy) (line 289) in Milli.  A distance is needed only
\* below mouseRadius: a leg of at least mouseRadius gives mouseRadius.  Legs
\* up to 32 px are squared exactly, longer ones at a quarter of the resolution,
\* which keeps the squares within 32 bits.
Distance(dx, dy) ==
  IF Abs(dx) >= mouseRadius * Milli \/ Abs(dy) >= mouseRadius * Milli
    THEN mouseRadius * Milli
  ELSE IF Abs(dx) < 32 * Milli /\ Abs(dy) < 32 * Milli
    THEN MathSqrt(dx * dx + dy * dy)
  ELSE 4 * MathSqrt(RoundDiv(dx, 4) * RoundDiv(dx, 4) + RoundDiv(dy, 4) * RoundDiv(dy, 4))

\* const force = (1 - dist / CONFIG.mouseRadius) * 0.6 (line 291), in Milli
Force(dist) == RoundDiv((mouseRadius * Milli - dist) * 600, mouseRadius * Milli)

\* dirX * force with dirX = dx / (dist || 1) (lines 292-296), in Milli
Push(d, dist, force) == RoundDiv(d * force, IF dist # 0 THEN dist ELSE Milli)

\* The pointer's push with the clamp of lines 302-304 left out.
ClampOff(v) == v

\* Math.max(-vmax, Math.min(vmax, v)) with vmax = CONFIG.speedRange * 2.2 (lines 302-304)
Clamp(v) ==
  LET vmax == (speedRange * 22) \div 10
  IN  Max(-vmax, Min(vmax, v))

\* update() without the damping of lines 309-310
DampOff(v) == v

\* p.vx *= 0.995 (lines 309-310)
Damp(v) == RoundDiv(v * 995, 1000)

\* The pointer's effect on (vx, vy) of a particle at (x, y) (lines 286-306).
PointerForce(x, y, vx, vy, m) ==
  IF ~PointerApplies(m) THEN <<vx, vy>>
  ELSE LET dx   == x - m.x[1]
           dy   == y - m.y[1]
           dist == Distance(dx, dy)
       IN  IF ~(dist < mouseRadius * Milli) THEN <<vx, vy>>
           ELSE LET force == Force(dist)
                    px == Push(dx, dist, force)
                    py == Push(dy, dist, force)
                IN  IF repel
                      THEN <<Clamp(vx + px), Clamp(vy + py)>>
                      ELSE <<Clamp(vx - RoundDiv(px * 15, 100)),
                             Clamp(vy - RoundDiv(py * 15, 100))>>

\* One iteration of update()'s loop (lines 273-310).
UpdateParticle(p, w, h, m) ==
  LET x == Wrap(p.x + p.vx, w)
      y == Wrap(p.y + p.vy, h)
      v == PointerForce(x, y, p.vx, p.vy, m)
  IN  [p EXCEPT !.x = x, !.y = y, !.vx = Damp(v[1]), !.vy = Damp(v[2])]

\* update() (lines 271-312)
update(ps, w, h, m) == [k \in 1..Len(ps) |-> UpdateParticle(ps[k], w, h, m)]

-----------------------------------------------------------------------------
(* Pointer handlers (lines 351-384).                                       *)

\* const mouse = {...} (line 202)
mouseInit ==
  [x |-> Null, y |-> Null, vx |-> 0, vy |-> 0, lastX |-> Null, lastY |-> Null,
   active |-> FALSE]

\* onMouseMove(e) (lines 353-365)
onMouseMove(m, e) ==
  LET x == e.clientX - canvasRect.left
      y == e.clientY - canvasRect.top
  IN  [ active |-> TRUE,
        x      |-> Some(x),
        y      |-> Some(y),
        vx     |-> IF m.lastX # Null THEN x - m.lastX[1] ELSE m.vx,
        vy     |-> IF m.lastX # Null THEN y - m.lastY[1] ELSE m.vy,
        lastX  |-> Some(x),
        lastY  |-> Some(y) ]

\* onMouseLeave() that keeps lastX and lastY
onMouseLeaveKeepsLast(m) == [m EXCEPT !.active = FALSE, !.x = Null, !.y = Null]

\* onMouseLeave() that only clears the flag
onMouseLeaveFlagOnly(m) == [m EXCEPT !.active = FALSE]

\* onMouseLeave() that clears nothing
onMouseLeaveKeeps(m) == m

\* onMouseLeave() (lines 370-376)
onMouseLeave(m) ==
  [m EXCEPT !.active = FALSE, !.x = Null, !.y = Null, !.lastX = Null, !.lastY = Null]

\* if (!e.touches || e.touches.length === 0) return; (line 380)
TouchIgnored(touches) == Len(touches) = 0

\* onTouchMove(e) (lines 379-383)
onTouchMove(m, touches) ==
  IF TouchIgnored(touches) THEN m ELSE onMouseMove(m, touches[1])

\* onTouchEnd() (line 384)
onTouchEnd(m) == onMouseLeave(m)

-----------------------------------------------------------------------------
(* loop() and the visibilitychange handler (lines 204-209, 343-349).       *)

\* loop() without the `if (!isRunning) return;` of line 344
loopUnguarded(ps, w, h, m, running) ==
  [particles |-> update(ps, w, h, m), requested |-> 1, updates |-> 1]

\* One call of loop() by an animator whose particles are ps: the particles
\* afterwards, the frames it requested (0 or 1) and the update() calls it made.
\* render() draws and changes no state.
loop(ps, w, h, m, running) ==
  IF ~running
    THEN [particles |-> ps, requested |-> 0, updates |-> 0]
    ELSE [particles |-> update(ps, w, h, m), requested |-> 1, updates |-> 1]

RECURSIVE RunLoopCallbacks(_, _, _, _, _, _)
\* A display frame runs the n loop callbacks that were outstanding when it
\* began, one after the other; what they request runs in a later frame.
RunLoopCallbacks(n, ps, w, h, m, running) ==
  IF n = 0 THEN [particles |-> ps, requested |-> 0, updates |-> 0]
  ELSE LET first == loop(ps, w, h, m, running)
           rest  == RunLoopCallbacks(n - 1, first.particles, w, h, m, running)
       IN  [ particles |-> rest.particles,
             requested |-> first.requested + rest.requested,
             updates   |-> first.updates + rest.updates ]

\* The handler of lines 206-209 without its `if (isRunning) loop();`
onVisibilityChangeFlagOnly(ps, w, h, m, vis) ==
  [isRunning |-> vis, particles |-> ps, requested |-> 0, updates |-> 0]

\* isRunning = document.visibilityState === 'visible'; if (isRunning) loop();
\* (lines 206-209), vis the new visibility
onVisibilityChange(ps, w, h, m, vis) ==
  LET l == IF vis THEN loop(ps, w, h, m, vis)
           ELSE [particles |-> ps, requested |-> 0, updates |-> 0]
  IN  [ isRunning |-> vis, particles |-> l.particles,
        requested |-> l.requested, updates |-> l.updates ]

-----------------------------------------------------------------------------
(* The project filter and the project search (lines 466-488).              *)

\* longest text typed into the search box
MaxSearchLen == 2

\* the characters of titles and search texts
Letters == {"a", "A", "b", "B"}

\* String.prototype.toLowerCase() on one character (lines 483, 485)
LowerOf(c) == CASE c = "A" -> "a" [] c = "B" -> "b" [] OTHER -> c

\* String.prototype.toLowerCase() (lines 483, 485)
toLowerCase(str) == [k \in 1..Len(str) |-> LowerOf(str[k])]

\* String.prototype.includes() (line 486): val occurs in str at some offset
includes(str, val) ==
  \E o \in 0..(Len(str) - Len(val)) : SubSeq(str, o + 1, o + Len(val)) = val

\* the data-filter attributes of the '.filter-btn' elements (line 467)
filterBtns == <<"all", "web", "mobile">>

\* the '.project-card' elements (line 468): data-category and the text of the h3
projectCards ==
  << [category |-> "web",    title |-> <<"A", "b">>],
     [category |-> "web",    title |-> <<"b">>],
     [category |-> "mobile", title |-> <<"B", "a">>] >>

\* texts the search box can hold
SearchTexts == UNION {[1..n -> Letters] : n \in 0..MaxSearchLen}

\* The page as the markup gives it: the buttons in act carry 'active', no
\* card has an inline display, the search box is empty, nothing was clicked.
Markup(act) ==
  [active  |-> act,
   display |-> [k \in 1..Len(projectCards) |-> ""],
   value   |-> << >>,
   clicked |-> Null]

\* the click listener of filter button btn (lines 471-478)
onFilterClick(ui, btn) ==
  LET filter == filterBtns[btn]
  IN  [ui EXCEPT
         !.active  = (ui.active \ (1..Len(filterBtns))) \cup {btn},
         !.display = [k \in 1..Len(projectCards) |->
                        IF filter = "all" \/ projectCards[k].category = filter
                        THEN "block" ELSE "none"],
         !.clicked = Some(btn)]

\* the input listener of the search box (lines 482-488); text is e.target.value
onSearchInput(ui, text) ==
  LET val == toLowerCase(text)
  IN  [ui EXCEPT
         !.value   = text,
         !.display = [k \in 1..Len(projectCards) |->
                        IF includes(toLowerCase(projectCards[k].title), val)
                        THEN "block" ELSE "none"]]

-----------------------------------------------------------------------------
(* The state before the script runs.                                       *)

PageInit ==
  /\ pc = "start"
  /\ canvasPresent \in BOOLEAN
  /\ visible = TRUE
  /\ surface \in LoadSurfaces
  /\ particlesArrayLen = 0
  /\ rafAnimate = 0
  /\ resizeListeners = << >>
  /\ canvasListeners = {}
  /\ docListeners = {}
  /\ particles = [i \in Instances |-> << >>]
  /\ width = [i \in Instances |-> 0]
  /\ height = [i \in Instances |-> 0]
  /\ mouse = [i \in Instances |-> mouseInit]
  /\ isRunning = [i \in Instances |-> TRUE]
  /\ rafLoop = [i \in Instances |-> 0]
  /\ rafMouse = [i \in Instances |-> FALSE]
  /\ timeouts = {}
  /\ resizeTimer = 0
  /\ nextHandle = 1
  /\ resizeSeen = FALSE
  /\ resizedWhileHidden = FALSE
  /\ lastTask = "none"
  /\ lastPointer = "none"
  /\ lastResize = [i \in Instances |-> <<0, 0>>]
  /\ sinceResize = resizeDelay
  /\ burstResizes = [i \in Instances |-> 0]
  /\ nUpdates = [i \in Instances |-> 0]
  /\ nEvents = 0

\* A page without '.stat-number' elements, to which MaxEvents events are delivered.
Init ==
  /\ PageInit
  /\ eventBudget = MaxEvents
  /\ particleSystem = 0
  /\ stats = << >>
  /\ scene = << >>
  /\ drawn = [by |-> "none", lines |-> << >>]
  /\ projectUI = Markup({})

-----------------------------------------------------------------------------
(* The script runs (one task, top to bottom).                              *)

\* initParticles() (lines 84-98): particlesArray.length afterwards
InitParticlesLen(s) == Max(40, MathFloor(s[1] * s[2], 90000))

\* resize() of one animator (lines 211-231): its width, height and particles
\* afterwards, on the canvas laid out as s; `called` is <<particles.length
\* before, count>>.
resize(ps, s, seed) ==
  LET w == ClientOr(s[1], s[1])
      h == ClientOr(s[2], s[2])
      count == TargetCount(w, h)
  IN  [ width     |-> w,
        height    |-> h,
        particles |-> Reconcile(ps, count, w, h, seed),
        called    |-> <<Len(ps), count>> ]

\* document.querySelectorAll('.stat-number').forEach(...) (lines 456-464): every
\* element gets count = 0 and a running 30ms interval.
StartCounters(elements) ==
  [k \in 1..Len(elements) |-> [elements[k] EXCEPT !.count = 0, !.running = TRUE]]

\* Line 80 finds no canvas and line 81 calls getContext on null: the
\* TypeError ends the script there, before either animator's IIFE is reached.
ScriptThrows ==
  /\ pc = "start"
  /\ ~canvasPresent
  /\ pc' = "thrown"
  /\ lastTask' = "script"
  /\ UNCHANGED <<canvasPresent, visible, surface, particlesArrayLen, rafAnimate,
                 resizeListeners, canvasListeners, docListeners, particles,
                 width, height, mouse, isRunning, rafLoop, rafMouse, timeouts,
                 resizeTimer, nextHandle, resizeSeen, lastPointer, lastResize,
                 sinceResize, burstResizes, nUpdates, nEvents>>
  /\ UNCHANGED pageVars
  /\ UNCHANGED resizedWhileHidden

\* The canvas exists.  Lines 80-135 start the top-level engine; each IIFE
\* (lines 177-416, 517-756) adds its visibilitychange listener, calls
\* init(): resize(), bind(), loop(), and assigns window._particleSystem
\* (lines 413, 753); lines 456-464 start the counters.
ScriptLoads ==
  /\ pc = "start"
  /\ canvasPresent
  /\ pc' = "loaded"
  /\ lastTask' = "script"
  /\ particlesArrayLen' = InitParticlesLen(surface)
  /\ rafAnimate' = 1
  /\ resizeListeners' = <<0, 1, 2>>
  /\ canvasListeners' = Instances
  /\ docListeners' = Instances
  /\ \E seed \in [Instances -> Seeds] :
       \E r \in {[i \in Instances |-> resize(particles[i], surface, seed[i])]} :
       \E l \in {[i \in Instances |->
                   loop(r[i].particles, r[i].width, r[i].height, mouse[i], isRunning[i])]} :
           /\ width' = [i \in Instances |-> r[i].width]
           /\ height' = [i \in Instances |-> r[i].height]
           /\ lastResize' = [i \in Instances |-> r[i].called]
           /\ particles' = [i \in Instances |-> l[i].particles]
           /\ rafLoop' = [i \in Instances |-> rafLoop[i] + l[i].requested]
           /\ nUpdates' = [i \in Instances |-> nUpdates[i] + l[i].updates]
  /\ particleSystem' = 2
  /\ stats' = StartCounters(stats)
  /\ UNCHANGED <<canvasPresent, visible, surface, mouse, isRunning, rafMouse,
                 timeouts, resizeTimer, nextHandle, resizeSeen, lastPointer,
                 sinceResize, burstResizes, nEvents, eventBudget, scene, drawn>>
  /\ UNCHANGED <<resizedWhileHidden, projectUI>>

-----------------------------------------------------------------------------
(* Display frames.                                                         *)

\* The browser runs every outstanding requestAnimationFrame callback:
\* animateParticles (lines 116-132), which requests itself again, each
\* animator's loop callbacks and its rafMouse callback (line 367).
AnimationFrame ==
  /\ pc = "loaded"
  /\ \A i \in Instances : isRunning[i] => nUpdates[i] + rafLoop[i] <= MaxUpdates
  /\ lastTask' = "frame"
  /\ \E l \in {[i \in Instances |->
                 RunLoopCallbacks(rafLoop[i], particles[i], width[i], height[i],
                                  mouse[i], isRunning[i])]} :
         /\ particles' = [i \in Instances |-> l[i].particles]
         /\ rafLoop' = [i \in Instances |-> l[i].requested]
         /\ nUpdates' = [i \in Instances |-> nUpdates[i] + l[i].updates]
  /\ rafMouse' = [i \in Instances |-> FALSE]
  /\ UNCHANGED <<pc, canvasPresent, visible, surface, particlesArrayLen,
                 rafAnimate, resizeListeners, canvasListeners, docListeners,
                 width, height, mouse, isRunning, timeouts, resizeTimer,
                 nextHandle, resizeSeen, lastPointer, lastResize, sinceResize,
                 burstResizes, nEvents>>
  /\ UNCHANGED pageVars
  /\ UNCHANGED resizedWhileHidden

-----------------------------------------------------------------------------
(* Page visibility (lines 204-209).                                        *)

\* The page is hidden or shown, and each animator's handler runs.
VisibilityChange ==
  /\ pc = "loaded"
  /\ nEvents < eventBudget
  /\ ~visible => \A i \in Instances : nUpdates[i] < MaxUpdates
  /\ visible' = ~visible
  /\ resizedWhileHidden' = FALSE
  /\ lastTask' = "visibility"
  /\ nEvents' = nEvents + 1
  /\ \E v \in {[i \in Instances |->
                 IF i \in docListeners
                   THEN onVisibilityChange(particles[i], width[i], height[i],
                                           mouse[i], visible')
                   ELSE [isRunning |-> isRunning[i], particles |-> particles[i],
                         requested |-> 0, updates |-> 0]]} :
         /\ isRunning' = [i \in Instances |-> v[i].isRunning]
         /\ particles' = [i \in Instances |-> v[i].particles]
         /\ rafLoop' = [i \in Instances |-> rafLoop[i] + v[i].requested]
         /\ nUpdates' = [i \in Instances |-> nUpdates[i] + v[i].updates]
  /\ UNCHANGED <<pc, canvasPresent, surface, particlesArrayLen, rafAnimate,
                 resizeListeners, canvasListeners, docListeners, width, height,
                 mouse, rafMouse, timeouts, resizeTimer, nextHandle, resizeSeen,
                 lastPointer, lastResize, sinceResize, burstResizes>>
  /\ UNCHANGED pageVars

-----------------------------------------------------------------------------
(* Pointer and touch events on the canvas (lines 396-399).                 *)

PointerUnchanged ==
  UNCHANGED <<pc, canvasPresent, visible, surface, particlesArrayLen, rafAnimate,
              resizeListeners, canvasListeners, docListeners, particles, width,
              height, isRunning, rafLoop, timeouts, resizeTimer, nextHandle,
              resizeSeen, resizedWhileHidden, lastResize, sinceResize,
              burstResizes, nUpdates, eventBudget, particleSystem, stats, scene,
              drawn, projectUI>>

MouseMove ==
  /\ pc = "loaded"
  /\ nEvents < eventBudget
  /\ \E e \in PointerEvents(surface) :
       mouse' = [i \in Instances |->
                   IF i \in canvasListeners THEN onMouseMove(mouse[i], e) ELSE mouse[i]]
  /\ rafMouse' = [i \in Instances |-> rafMouse[i] \/ i \in canvasListeners]
  /\ lastTask' = "pointer"
  /\ lastPointer' = "mousemove"
  /\ nEvents' = nEvents + 1
  /\ PointerUnchanged

MouseLeave ==
  /\ pc = "loaded"
  /\ nEvents < eventBudget
  /\ mouse' = [i \in Instances |->
                 IF i \in canvasListeners THEN onMouseLeave(mouse[i]) ELSE mouse[i]]
  /\ lastTask' = "pointer"
  /\ lastPointer' = "mouseleave"
  /\ nEvents' = nEvents + 1
  /\ UNCHANGED rafMouse
  /\ PointerUnchanged

\* e.touches is empty or holds one touch
TouchMove ==
  /\ pc = "loaded"
  /\ nEvents < eventBudget
  /\ \E touches \in {<< >>} \cup {<<e>> : e \in PointerEvents(surface)} :
       /\ mouse' = [i \in Instances |->
                      IF i \in canvasListeners THEN onTouchMove(mouse[i], touches)
                      ELSE mouse[i]]
       /\ rafMouse' = [i \in Instances |->
                         rafMouse[i] \/ (i \in canvasListeners /\ ~TouchIgnored(touches))]
       /\ lastPointer' = IF TouchIgnored(touches) THEN lastPointer ELSE "touchmove"
       /\ lastTask' = IF TouchIgnored(touches) THEN "touch-ignored" ELSE "pointer"
  /\ nEvents' = nEvents + 1
  /\ PointerUnchanged

TouchEnd ==
  /\ pc = "loaded"
  /\ nEvents < eventBudget
  /\ mouse' = [i \in Instances |->
                 IF i \in canvasListeners THEN onTouchEnd(mouse[i]) ELSE mouse[i]]
  /\ lastTask' = "pointer"
  /\ lastPointer' = "touchend"
  /\ nEvents' = nEvents + 1
  /\ UNCHANGED rafMouse
  /\ PointerUnchanged

-----------------------------------------------------------------------------
(* Window resize events and the debounce timer (lines 133, 387-394).       *)

\* The debounce listener of one animator (lines 388-394), on the window's
\* timers t = [timeouts, resizeTimer, nextHandle]:
\*   clearTimeout(window._particlesResizeTimer);
\*   window._particlesResizeTimer = setTimeout(() => { resize(); }, 120);
Debounce(t, owner) ==
  [ timeouts    |-> {x \in t.timeouts : x.id # t.resizeTimer}
                      \cup {[id |-> t.nextHandle, owner |-> owner, left |-> resizeDelay]},
    resizeTimer |-> t.nextHandle,
    nextHandle  |-> t.nextHandle + 1 ]

RECURSIVE DispatchResize(_, _)
\* The window's resize listeners run in registration order.  Listener 0 is
\* initParticles of the top-level engine, which sets no timer.
DispatchResize(ls, t) ==
  IF ls = << >> THEN t
  ELSE DispatchResize(Tail(ls), IF Head(ls) = 0 THEN t ELSE Debounce(t, Head(ls)))

\* the time between two steps of the model's clock, ms
TickMs == resizeDelay \div 2

TimerDue == \E x \in timeouts : x.left = 0

\* The window is resized to a next layout.  A due timer runs before the event.
WindowResize ==
  /\ pc = "loaded"
  /\ nEvents < eventBudget
  /\ ~TimerDue
  /\ \E s \in NextLayouts(surface) :
       /\ surface' = s
       /\ particlesArrayLen' =
            IF 0 \in {resizeListeners[k] : k \in 1..Len(resizeListeners)}
              THEN InitParticlesLen(s) ELSE particlesArrayLen
  /\ \E t \in {DispatchResize(resizeListeners,
                [timeouts |-> timeouts, resizeTimer |-> resizeTimer,
                 nextHandle |-> nextHandle])} :
         /\ timeouts' = t.timeouts
         /\ resizeTimer' = t.resizeTimer
         /\ nextHandle' = t.nextHandle
  /\ resizeSeen' = TRUE
  /\ resizedWhileHidden' = ~visible
  /\ sinceResize' = 0
  /\ burstResizes' = IF sinceResize >= resizeDelay
                       THEN [i \in Instances |-> 0] ELSE burstResizes
  /\ lastTask' = "resize"
  /\ nEvents' = nEvents + 1
  /\ UNCHANGED <<pc, canvasPresent, visible, rafAnimate, resizeListeners,
                 canvasListeners, docListeners, particles, width, height, mouse,
                 isRunning, rafLoop, rafMouse, lastPointer, lastResize, nUpdates>>
  /\ UNCHANGED pageVars

\* Time passes while no timer is due.
Tick ==
  /\ pc = "loaded"
  /\ ~TimerDue
  /\ sinceResize < resizeDelay
  /\ sinceResize' = Min(resizeDelay, sinceResize + TickMs)
  /\ timeouts' = {[x EXCEPT !.left = Max(0, x.left - TickMs)] : x \in timeouts}
  /\ lastTask' = "tick"
  /\ UNCHANGED <<pc, canvasPresent, visible, surface, particlesArrayLen,
                 rafAnimate, resizeListeners, canvasListeners, docListeners,
                 particles, width, height, mouse, isRunning, rafLoop, rafMouse,
                 resizeTimer, nextHandle, resizeSeen, lastPointer, lastResize,
                 burstResizes, nUpdates, nEvents>>
  /\ UNCHANGED pageVars
  /\ UNCHANGED resizedWhileHidden

\* A due debounce timer runs its callback: resize() of its animator (line 392).
TimerFires ==
  /\ pc = "loaded"
  /\ \E x \in timeouts :
       /\ x.left = 0
       /\ timeouts' = timeouts \ {x}
       /\ burstResizes' = [burstResizes EXCEPT ![x.owner] = @ + 1]
       /\ \E seed \in Seeds :
            \E r \in {resize(particles[x.owner], surface, seed)} :
                /\ width' = [width EXCEPT ![x.owner] = r.width]
                /\ height' = [height EXCEPT ![x.owner] = r.height]
                /\ particles' = [particles EXCEPT ![x.owner] = r.particles]
                /\ lastResize' = [lastResize EXCEPT ![x.owner] = r.called]
  /\ lastTask' = "timer"
  /\ UNCHANGED <<pc, canvasPresent, visible, surface, particlesArrayLen,
                 rafAnimate, resizeListeners, canvasListeners, docListeners,
                 mouse, isRunning, rafLoop, rafMouse, resizeTimer, nextHandle,
                 resizeSeen, lastPointer, sinceResize, nUpdates, nEvents>>
  /\ UNCHANGED pageVars
  /\ UNCHANGED resizedWhileHidden

-----------------------------------------------------------------------------
(* The debug object (lines 413-415, 753-755).                              *)

\* window._particleSystem.recreate() is called, from the console or another
\* script: particles = []; resize(); in the animator that assigned the object
\* last.
Recreate ==
  /\ pc = "loaded"
  /\ nEvents < eventBudget
  /\ particleSystem \in Instances
  /\ \E seed \in Seeds :
       \E r \in {resize(<< >>, surface, seed)} :
           /\ width' = [width EXCEPT ![particleSystem] = r.width]
           /\ height' = [height EXCEPT ![particleSystem] = r.height]
           /\ particles' = [particles EXCEPT ![particleSystem] = r.particles]
           /\ lastResize' = [lastResize EXCEPT ![particleSystem] = r.called]
  /\ lastTask' = "recreate"
  /\ nEvents' = nEvents + 1
  /\ UNCHANGED <<pc, canvasPresent, visible, surface, particlesArrayLen,
                 rafAnimate, resizeListeners, canvasListeners, docListeners,
                 mouse, isRunning, rafLoop, rafMouse, timeouts, resizeTimer,
                 nextHandle, resizeSeen, lastPointer, sinceResize, burstResizes,
                 nUpdates>>
  /\ UNCHANGED pageVars
  /\ UNCHANGED resizedWhileHidden

-----------------------------------------------------------------------------

Next ==
  \/ ScriptThrows
  \/ ScriptLoads
  \/ AnimationFrame
  \/ VisibilityChange
  \/ MouseMove
  \/ MouseLeave
  \/ TouchMove
  \/ TouchEnd
  \/ WindowResize
  \/ Tick
  \/ TimerFires
  \/ Recreate

Spec == Init /\ [][Next]_vars

-----------------------------------------------------------------------------
(* What a frame draws (lines 99-115, 260-268, 314-325).  Spec keeps no      *)
(* record of the canvas: the lines of a frame are a function of the        *)
(* particle positions alone, applied here to scenes of a few particles.    *)

\* particles per scene
MaxScene == 4

Centi == 10^2

\* Positions in whole px.  From <<0, 0>> they lie at 60, at 119.4 (71, 96), at
\* exactly 120 (72, 96) and at 200.
ScenePoints == {<<0, 0>>, <<60, 0>>, <<71, 96>>, <<72, 96>>, <<200, 0>>}

RECURSIVE ScenesOf(_)
\* the scenes of exactly n particles
ScenesOf(n) ==
  IF n = 0 THEN {<< >>}
  ELSE {Append(sc, p) : sc \in ScenesOf(n - 1), p \in ScenePoints}

Scenes == UNION {ScenesOf(n) : n \in 0..MaxScene}

\* dx * dx + dy * dy (lines 102-104, 320-321), px^2
DistSquared(p, q) == (p[1] - q[1]) * (p[1] - q[1]) + (p[2] - q[2]) * (p[2] - q[2])

\* Math.sqrt(dx * dx + dy * dy) in Centi, cut off after the hundredths; it is
\* below a whole number of px exactly when the square root is.
Dist(p, q) == SqrtSearch(DistSquared(p, q) * Centi * Centi, 0, 46340)

\* The opacities below are numerators over AlphaScale, in Milli: the opacity
\* is alpha / AlphaScale thousandths.
AlphaScale == connectDistance * Centi

\* drawLine with the opacity of connectParticles: CONFIG.lineAlpha at any distance
drawLineFlat(dist) == lineAlpha * AlphaScale

\* drawLine(p1, p2, dist) (lines 260-268): the opacity of the stroke,
\* Math.max(0, CONFIG.lineAlpha * (1 - dist / CONFIG.connectDistance))
drawLine(dist) == Max(0, lineAlpha * (AlphaScale - dist))

RECURSIVE RenderLines(_, _, _)
\* The loops of render() (lines 317-325) from (i, j) on: the strokes in order,
\* each with the indices of its particles.
RenderLines(sc, i, j) ==
  IF i > Len(sc) THEN << >>
  ELSE IF j > Len(sc) THEN RenderLines(sc, i + 1, i + 2)
  ELSE (IF Dist(sc[i], sc[j]) < connectDistance * Centi
          THEN << [a |-> i, b |-> j, alpha |-> drawLine(Dist(sc[i], sc[j]))] >>
          ELSE << >>)
       \o RenderLines(sc, i, j + 1)

\* render() (lines 314-340): its connecting lines
render(sc) == RenderLines(sc, 1, 2)

RECURSIVE ConnectLines(_, _, _)
\* The loops of connectParticles() (lines 100-114) from (a, b) on; the inner
\* loop starts at b = a, and every stroke is 'rgba(0,245,255,0.1)'.
ConnectLines(sc, a, b) ==
  IF a > Len(sc) THEN << >>
  ELSE IF b > Len(sc) THEN ConnectLines(sc, a + 1, a + 1)
  ELSE (IF Dist(sc[a], sc[b]) < engineConnectDistance * Centi
          THEN << [a |-> a, b |-> b, alpha |-> engineLineAlpha * AlphaScale] >>
          ELSE << >>)
       \o ConnectLines(sc, a, b + 1)

\* connectParticles() (lines 99-115)
connectParticles(sc) == ConnectLines(sc, 1, 1)

\* everything but scene and drawn
pageState ==
  <<pc, canvasPresent, visible, surface, particlesArrayLen, rafAnimate,
    resizeListeners, canvasListeners, docListeners, particles, width, height,
    mouse, isRunning, rafLoop, rafMouse, timeouts, resizeTimer, nextHandle,
    resizeSeen, resizedWhileHidden, lastTask, lastPointer, lastResize,
    sinceResize, burstResizes, nUpdates, nEvents, eventBudget, particleSystem,
    stats, projectUI>>

\* An animator's render() draws the scene.
Render ==
  /\ drawn' = [by |-> "render", lines |-> render(scene)]
  /\ UNCHANGED <<pageState, scene>>

\* The top-level engine's connectParticles() draws the scene.
ConnectParticles ==
  /\ drawn' = [by |-> "connectParticles", lines |-> connectParticles(scene)]
  /\ UNCHANGED <<pageState, scene>>

RenderInit ==
  /\ PageInit
  /\ canvasPresent
  /\ surface = <<refWidth, refHeight>>
  /\ eventBudget = 0
  /\ particleSystem = 0
  /\ stats = << >>
  /\ scene \in Scenes
  /\ drawn = [by |-> "none", lines |-> << >>]
  /\ projectUI = Markup({})

RenderNext ==
  \/ Render
  \/ ConnectParticles

RenderSpec == RenderInit /\ [][RenderNext]_vars

-----------------------------------------------------------------------------
(* The pointer handlers alone, over longer runs of pointer and touch events *)
(* on the loaded page.                                                     *)

\* pointer and touch events per run
MaxPointerEvents == 5

PointerInit ==
  /\ PageInit
  /\ canvasPresent
  /\ eventBudget = MaxPointerEvents
  /\ particleSystem = 0
  /\ stats = << >>
  /\ scene = << >>
  /\ drawn = [by |-> "none", lines |-> << >>]
  /\ projectUI = Markup({})

PointerNext ==
  \/ ScriptLoads
  \/ MouseMove
  \/ MouseLeave
  \/ TouchMove
  \/ TouchEnd

PointerSpec == PointerInit /\ [][PointerNext]_vars

-----------------------------------------------------------------------------
(* The '.stat-number' counters (lines 456-464), on pages that have some.    *)

\* the largest data-target
MaxTarget == 3
\* '.stat-number' elements per page
MaxStats == 2

\* A '.stat-number' element before the script runs: its data-target, and
\* nothing counted or written yet.
StatElement(target) ==
  [target |-> target, count |-> 0, text |-> Null, running |-> FALSE]

RECURSIVE StatPagesOf(_)
\* the pages with exactly n '.stat-number' elements
StatPagesOf(n) ==
  IF n = 0 THEN {<< >>}
  ELSE {Append(pg, StatElement(t)) : pg \in StatPagesOf(n - 1), t \in 0..MaxTarget}

StatPages == UNION {StatPagesOf(n) : n \in 1..MaxStats}

\* The interval callback of one element (lines 459-463):
\*   count++; num.textContent = count; if (count >= target) clearInterval(update);
IntervalCallback(el) ==
  [el EXCEPT !.count = el.count + 1,
             !.text = Some(el.count + 1),
             !.running = ~(el.count + 1 >= el.target)]

\* The 30ms interval of a counter fires.
CounterTick ==
  /\ pc = "loaded"
  /\ \E k \in 1..Len(stats) :
       /\ stats[k].running
       /\ stats' = [stats EXCEPT ![k] = IntervalCallback(stats[k])]
  /\ lastTask' = "interval"
  /\ UNCHANGED <<pc, canvasPresent, visible, surface, particlesArrayLen,
                 rafAnimate, resizeListeners, canvasListeners, docListeners,
                 particles, width, height, mouse, isRunning, rafLoop, rafMouse,
                 timeouts, resizeTimer, nextHandle, resizeSeen,
                 resizedWhileHidden, lastPointer, lastResize, sinceResize,
                 burstResizes, nUpdates, nEvents, eventBudget, particleSystem,
                 scene, drawn, projectUI>>

CounterInit ==
  /\ PageInit
  /\ canvasPresent
  /\ surface = <<refWidth, refHeight>>
  /\ eventBudget = 0
  /\ particleSystem = 0
  /\ stats \in StatPages
  /\ scene = << >>
  /\ drawn = [by |-> "none", lines |-> << >>]
  /\ projectUI = Markup({})

CounterNext ==
  \/ ScriptLoads
  \/ CounterTick

CounterSpec == CounterInit /\ [][CounterNext]_vars

-----------------------------------------------------------------------------
(* The project filter and the search box on the loaded page.               *)

\* what a filter click or a search input leaves alone
FilterUnchanged ==
  UNCHANGED <<pc, canvasPresent, visible, surface, particlesArrayLen, rafAnimate,
              resizeListeners, canvasListeners, docListeners, particles, width,
              height, mouse, isRunning, rafLoop, rafMouse, timeouts, resizeTimer,
              nextHandle, resizeSeen, resizedWhileHidden, lastPointer,
              lastResize, sinceResize, burstResizes, nUpdates, nEvents,
              eventBudget, particleSystem, stats, scene, drawn>>

\* A filter button is clicked.
FilterClick ==
  /\ pc = "loaded"
  /\ \E btn \in 1..Len(filterBtns) : projectUI' = onFilterClick(projectUI, btn)
  /\ lastTask' = "filter-click"
  /\ FilterUnchanged

\* The text of the search box changes.
SearchInput ==
  /\ pc = "loaded"
  /\ \E text \in SearchTexts \ {projectUI.value} :
       projectUI' = onSearchInput(projectUI, text)
  /\ lastTask' = "search-input"
  /\ FilterUnchanged

\* The 'all' button carries 'active' in the markup, or no button does.
FilterInit ==
  /\ PageInit
  /\ canvasPresent
  /\ surface = <<refWidth, refHeight>>
  /\ eventBudget = 0
  /\ particleSystem = 0
  /\ stats = << >>
  /\ scene = << >>
  /\ drawn = [by |-> "none", lines |-> << >>]
  /\ \E act \in {{}, {1}} : projectUI = Markup(act)

FilterNext ==
  \/ ScriptLoads
  \/ FilterClick
  \/ SearchInput

FilterSpec == FilterInit /\ [][FilterNext]_vars

-----------------------------------------------------------------------------
(* The claims.                                                             *)

\* Is the coordinate c (Milli) within the margin of a surface dimension dim (px)
InMargin(c, dim) == -(wrapMargin * Milli) <= c /\ c <= (dim + wrapMargin) * Milli

\* C1 (wrap invariant): every step in which an animator runs update() -- a
\* display frame, a return to visibility, init -- ends with each of its
\* particles at x in [-10, width + 10] and y in [-10, height + 10], for the
\* animator's current width and height, whatever resize, pointer-move and
\* pointer-leave events came before.
C1_WrapInvariant ==
  [][\A i \in Instances :
       nUpdates'[i] # nUpdates[i] =>
         \A k \in 1..Len(particles'[i]) :
           /\ InMargin(particles'[i][k].x, width'[i])
           /\ InMargin(particles'[i][k].y, height'[i])]_vars

\* C1 witness: a display frame has just run update() and left a particle on
\* the far margin, which only the low-side wrap does; that particle had been
\* put on the near margin by the high-side wrap after the surface shrank.
C1_Witness ==
  /\ lastTask = "frame"
  /\ resizeSeen
  /\ \E i \in Instances :
       /\ isRunning[i]
       /\ \E k \in 1..Len(particles[i]) :
            \/ particles[i][k].x = (width[i] + wrapMargin) * Milli
            \/ particles[i][k].y = (height[i] + wrapMargin) * Milli

\* 2.2 x CONFIG.speedRange, in Milli
VelocityLimit == (22 * speedRange) \div 10

\* C2 (velocity bound): in every reachable state, after any particle
\* creations, updates, pointer moves and pointer leaves, every particle of
\* every animator has |vx| and |vy| at most 2.2 x CONFIG.speedRange.
C2_VelocityBound ==
  \A i \in Instances :
    \A k \in 1..Len(particles[i]) :
      /\ Abs(particles[i][k].vx) <= VelocityLimit
      /\ Abs(particles[i][k].vy) <= VelocityLimit

\* C2 witness: the pointer is on the canvas and some particle moves at the
\* speed the clamp leaves after one damping, so its push was cut at the limit.
C2_Witness ==
  /\ lastTask = "frame"
  /\ \E i \in Instances :
       /\ mouse[i].active
       /\ \E k \in 1..Len(particles[i]) :
            \/ Abs(particles[i][k].vx) = Damp(VelocityLimit)
            \/ Abs(particles[i][k].vy) = Damp(VelocityLimit)

\* The count the claim C3 gives for a resize() that finds c particles and
\* computes the target t: t if c = 0, t if c < t, t if c > 1.4 t, else c.
ClaimedCount(c, t) ==
  IF c = 0 THEN t
  ELSE IF c < t THEN t
  ELSE IF 5 * c > 7 * t THEN t
  ELSE c

\* C3 (resize reconciliation count): after a resize() that found C particles
\* and computed the target T, an animator holds T particles if C = 0, C < T
\* or C > 1.4 T, and C particles if C # 0 and T <= C <= 1.4 T.
C3_ReconciliationCount ==
  \A i \in Instances :
    pc = "loaded" =>
      Len(particles[i]) = ClaimedCount(lastResize[i][1], lastResize[i][2])

\* C4 (target count formula): the target T an animator's resize() computed
\* for its width x height is round(baseCount x clamp(area / refArea, 0.5, 2.2)):
\* it lies in [30, 132]; it is 60 at the reference area, 30 wherever the ratio
\* is at most 0.5 and 132 wherever it is at least 2.2; in between it is an
\* integer nearest to baseCount x area / refArea.
C4_TargetCount ==
  \A i \in Instances :
    pc = "loaded" =>
      LET t    == lastResize[i][2]
          area == width[i] * height[i]
      IN  /\ 30 <= t /\ t <= 132
          /\ area = refArea => t = 60
          /\ 2 * area <= refArea => t = 30
          /\ 10 * area >= 22 * refArea => t = 132
          /\ (2 * area > refArea /\ 10 * area < 22 * refArea) =>
               2 * Abs(t * refArea - baseCount * area) <= refArea

\* C4 witness: the second animator has just recomputed at five times the
\* reference area, where the clamp gives 132, while the first still has the
\* target 126 it rounded up from 60 x 2.0964 = 125.8 at 1366 x 1610.
C4_Witness ==
  /\ lastTask = "timer"
  /\ width[2] * height[2] = 5 * refArea
  /\ lastResize[2][2] = 132
  /\ width[1] = 1366 /\ height[1] = 1610
  /\ lastResize[1][2] = 126

\* Do the particles p and q have the same position and velocity
SameMotion(p, q) == p.x = q.x /\ p.y = q.y /\ p.vx = q.vx /\ p.vy = q.vy

\* C5 (pause safety): in every step that ends with the page not visible -- the
\* step that hides it and every step until it is shown again -- no animator
\* executes update(), none gains an outstanding frame callback, a display
\* frame leaves none outstanding (a callback pending from before the hide
\* returns at once), and every particle an animator keeps has the position and
\* velocity it had (recreate() keeps none: it builds the collection anew).
C5_PauseSafety ==
  [][~visible' =>
       \A i \in Instances :
         /\ nUpdates'[i] = nUpdates[i]
         /\ rafLoop'[i] <= rafLoop[i]
         /\ lastTask' = "frame" => rafLoop'[i] = 0
         /\ lastTask' # "recreate" =>
              \A k \in 1..Min(Len(particles[i]), Len(particles'[i])) :
                SameMotion(particles'[i][k], particles[i][k])]_vars

\* C5 witness: the page is hidden and a display frame has just run the
\* callbacks that were pending from before the hide; no animator has one left.
C5_Witness ==
  /\ pc = "loaded"
  /\ ~visible
  /\ lastTask = "frame"
  /\ \A i \in Instances : ~isRunning[i] /\ rafLoop[i] = 0 /\ nUpdates[i] >= 1

\* C6 (resume liveness): the step in which the page becomes visible again runs
\* update() once for every animator, on exactly the particles it held when the
\* step began, and leaves it a frame callback outstanding; and whenever the
\* page is visible after a step, every animator has a callback outstanding, so
\* each frame that ran scheduled a successor and the loop has not ended.
C6_ResumeLiveness ==
  [][\A i \in Instances :
       /\ (~visible /\ visible') =>
            /\ isRunning'[i]
            /\ nUpdates'[i] = nUpdates[i] + 1
            /\ particles'[i] = update(particles[i], width[i], height[i], mouse[i])
            /\ rafLoop'[i] >= 1
       /\ (pc' = "loaded" /\ visible') => rafLoop'[i] >= 1]_vars

\* C6 witness: the page has just become visible again after a pause in which a
\* display frame drained the callbacks, so the one outstanding callback of
\* each animator is the one the handler's loop() requested.
C6_Witness ==
  /\ lastTask = "visibility"
  /\ visible
  /\ \A i \in Instances :
       isRunning[i] /\ rafLoop[i] = 1 /\ nUpdates[i] >= 2 /\ particles[i] # << >>

\* C7 (single frame chain): no animator ever has more than one frame callback
\* outstanding.
C7_SingleFrameChain == \A i \in Instances : rafLoop[i] <= 1

RECURSIVE DampTimes(_, _)
\* The velocity component v after n updates that only damp it
DampTimes(n, v) == IF n = 0 THEN v ELSE DampTimes(n - 1, Damp(v))

\* C8 (pointer clear): while the last pointer event is a mouseleave or a
\* touchend, a step in which an animator runs update() n times changes each
\* particle's velocity by damping alone, n times: no pointer force is applied.
C8_PointerClear ==
  [][\A i \in Instances :
       (lastPointer \in {"mouseleave", "touchend"} /\ nUpdates'[i] > nUpdates[i]) =>
         /\ Len(particles'[i]) = Len(particles[i])
         /\ \A k \in 1..Len(particles[i]) :
              /\ particles'[i][k].vx =
                   DampTimes(nUpdates'[i] - nUpdates[i], particles[i][k].vx)
              /\ particles'[i][k].vy =
                   DampTimes(nUpdates'[i] - nUpdates[i], particles[i][k].vy)]_vars

\* C8 witness: a display frame has run update() after a mouseleave that
\* followed a pointer move, and a moving particle lies within mouseRadius of
\* the canvas centre, where the pointer had been.
C8_Witness ==
  /\ lastTask = "frame"
  /\ lastPointer = "mouseleave"
  /\ nEvents = 2
  /\ \E i \in Instances :
       /\ isRunning[i]
       /\ ~mouse[i].active
       /\ \E k \in 1..Len(particles[i]) :
            /\ Distance(particles[i][k].x - (width[i] * Milli) \div 2,
                        particles[i][k].y - (height[i] * Milli) \div 2)
                 < mouseRadius * Milli
            /\ particles[i][k].vx # 0

\* C9 (resize debounce): once the window has been resized, no animator has
\* recomputed while the last resize event is less than 120ms old, and once
\* 120ms have passed and the due timer callbacks have run, every animator has
\* recomputed exactly once since the burst began.
C9_ResizeDebounce ==
  \A i \in Instances :
    resizeSeen =>
      IF sinceResize < resizeDelay
        THEN burstResizes[i] = 0
        ELSE ~TimerDue => burstResizes[i] = 1

\* C10 (missing surface): after the script has run on a page without the
\* canvas, no exception has been thrown, no listener is attached and no frame
\* is requested.
C10_MissingSurface ==
  (~canvasPresent /\ pc # "start") =>
    /\ pc # "thrown"
    /\ resizeListeners = << >>
    /\ canvasListeners = {}
    /\ docListeners = {}
    /\ rafAnimate = 0
    /\ \A i \in Instances : rafLoop[i] = 0

\* Did animator i's debounce timer run resize() in this step
TimerResized(i) == burstResizes'[i] # burstResizes[i]

\* C11 (reconciliation frame): a resize() run by the debounce timer with C
\* particles and target T appends to the unchanged particles when C < T, keeps
\* exactly the first T particles when it removes any, and changes nothing at
\* all when T <= C <= 1.4 x T.
C11_ReconciliationFrame ==
  [][\A i \in Instances :
       TimerResized(i) =>
         LET c == Len(particles[i])
             t == lastResize'[i][2]
         IN  /\ c < t =>
                  /\ Len(particles'[i]) = t
                  /\ SubSeq(particles'[i], 1, c) = particles[i]
             /\ Len(particles'[i]) < c => particles'[i] = SubSeq(particles[i], 1, t)
             /\ (t <= c /\ 5 * c <= 7 * t) => particles'[i] = particles[i]]_vars

\* C12 (removal threshold, as the code has it): a resize() run by the debounce
\* timer removes particles only if the collection it finds holds at least 1.4
\* times the new target (5C >= 7T), and then leaves exactly the target; if the
\* collection holds less than 1.4 times the new target it removes none.  The
\* previous target plays no part.
C12_RemovalThreshold ==
  [][\A i \in Instances :
       TimerResized(i) =>
         LET c == Len(particles[i])
             t == lastResize'[i][2]
         IN  /\ Len(particles'[i]) < c => (5 * c >= 7 * t /\ Len(particles'[i]) = t)
             /\ 5 * c < 7 * t => Len(particles'[i]) >= c]_vars

\* C12 witness: the timer's resize() has just cut 90 particles down to the
\* target 60.  The collection never holds fewer particles than the previous
\* target, so the target shrank by at most a third.
C12_Witness ==
  /\ lastTask = "timer"
  /\ \E i \in Instances :
       lastResize[i] = <<90, 60>> /\ Len(particles[i]) = 60

\* C12 as the specification states it: a resize() run by the debounce timer
\* removes particles only when the new target is more than 40% below the
\* previous target.
C12_RemovalOnlyBeyond40Percent ==
  [][\A i \in Instances :
       (TimerResized(i) /\ Len(particles'[i]) < Len(particles[i])) =>
         10 * lastResize'[i][2] < 6 * lastResize[i][2]]_vars

\* C13 (resize while paused): once a window resize event has been delivered to
\* the hidden page, and for as long as the page stays hidden, no animator's
\* debounce timer runs resize(): width, height and the particle collection are
\* recomputed only after the page is visible again (a recreate() call aside).
C13_ResizeDeferredWhilePaused ==
  [][\A i \in Instances :
       (resizedWhileHidden /\ lastTask' # "recreate") =>
         /\ ~TimerResized(i)
         /\ width'[i] = width[i] /\ height'[i] = height[i]
         /\ Len(particles'[i]) = Len(particles[i])]_vars

\* the pairs i < j of a scene's particles
ScenePairs == {pr \in (1..Len(scene)) \X (1..Len(scene)) : pr[1] < pr[2]}

\* the strokes of the last drawing that join particles i and j
StrokesOf(i, j) ==
  {k \in 1..Len(drawn.lines) :
     {drawn.lines[k].a, drawn.lines[k].b} = {i, j}}

\* C14 (line opacity): every line render() draws joins particles at a distance
\* d < connectDistance and has opacity lineAlpha x (1 - d / connectDistance),
\* which is never negative, is lineAlpha when d = 0, and is no larger for a
\* longer line; a pair at exactly connectDistance gets no line.
C14_LineOpacity ==
  drawn.by = "render" =>
    /\ \A k \in 1..Len(drawn.lines) :
         LET l == drawn.lines[k]
             d == Dist(scene[l.a], scene[l.b])
         IN  /\ DistSquared(scene[l.a], scene[l.b]) < connectDistance * connectDistance
             /\ l.alpha = lineAlpha * AlphaScale - (lineAlpha * d)
             /\ l.alpha >= 0
             /\ DistSquared(scene[l.a], scene[l.b]) = 0 => l.alpha = lineAlpha * AlphaScale
             /\ \A m \in 1..Len(drawn.lines) :
                  d < Dist(scene[drawn.lines[m].a], scene[drawn.lines[m].b])
                    => l.alpha > drawn.lines[m].alpha
    /\ \A pr \in ScenePairs :
         DistSquared(scene[pr[1]], scene[pr[2]]) = connectDistance * connectDistance
           => StrokesOf(pr[1], pr[2]) = {}

\* C14 witness: render() has drawn a scene with two particles at one point
\* (opacity lineAlpha), a pair 60 px apart (half of it), a pair 119.4 px
\* apart, and a pair exactly 120 px apart, which got no line.
C14_Witness ==
  /\ drawn.by = "render"
  /\ scene = << <<0, 0>>, <<0, 0>>, <<71, 96>>, <<72, 96>> >>
  /\ \E k \in 1..Len(drawn.lines) : drawn.lines[k].alpha = lineAlpha * AlphaScale
  /\ \E k \in 1..Len(drawn.lines) :
       0 < drawn.lines[k].alpha /\ 100 * drawn.lines[k].alpha < lineAlpha * AlphaScale
  /\ StrokesOf(1, 4) = {}

\* C15 (connection set): whichever function drew last, render() or
\* connectParticles(), it stroked exactly one line for every pair of distinct
\* particles closer than the threshold and no other line: none from a particle
\* to itself, none twice, none at or beyond the threshold.
C15_ConnectionSet ==
  drawn.by # "none" =>
    /\ \A k \in 1..Len(drawn.lines) : drawn.lines[k].a # drawn.lines[k].b
    /\ \A pr \in ScenePairs :
         IF DistSquared(scene[pr[1]], scene[pr[2]]) < connectDistance * connectDistance
           THEN Cardinality(StrokesOf(pr[1], pr[2])) = 1
           ELSE StrokesOf(pr[1], pr[2]) = {}

\* Is the particle p at least mouseRadius away from the pointer m, or m inactive
OutOfReach(p, m) ==
  \/ ~PointerApplies(m)
  \/ Distance(p.x - m.x[1], p.y - m.y[1]) >= mouseRadius * Milli

\* Is w the component v multiplied by 0.995, to the model's resolution
TimesDamping(v, w) == Abs(1000 * w - 995 * v) <= 500

\* C16 (damping): in a step in which an animator runs update() once, every
\* particle that is out of the pointer's reach where update() has moved it, or
\* whose animator has no active pointer, has its vx and vy multiplied by 0.995,
\* and neither |vx| nor |vy| grows.
C16_Damping ==
  [][\A i \in Instances :
       (nUpdates'[i] = nUpdates[i] + 1 /\ Len(particles'[i]) = Len(particles[i])) =>
         \A k \in 1..Len(particles[i]) :
           OutOfReach(particles'[i][k], mouse[i]) =>
             /\ TimesDamping(particles[i][k].vx, particles'[i][k].vx)
             /\ TimesDamping(particles[i][k].vy, particles'[i][k].vy)
             /\ Abs(particles'[i][k].vx) <= Abs(particles[i][k].vx)
             /\ Abs(particles'[i][k].vy) <= Abs(particles[i][k].vy)]_vars

\* C16 witness: a display frame has run update() with the pointer active over
\* the canvas; one moving particle is out of its reach and one is within.
C16_Witness ==
  /\ lastTask = "frame"
  /\ \E i \in Instances :
       /\ isRunning[i]
       /\ PointerApplies(mouse[i])
       /\ \E k \in 1..Len(particles[i]) :
            /\ OutOfReach(particles[i][k], mouse[i])
            /\ Abs(particles[i][k].vx) > 100
       /\ \E k \in 1..Len(particles[i]) : ~OutOfReach(particles[i][k], mouse[i])

PointerMoves == {"mousemove", "touchmove"}

PointerLeaves == {"mouseleave", "touchend"}

\* Is <<x, y>> the surface-local position of a pointer event on the canvas
EventPosition(x, y) ==
  \E e \in PointerEvents(surface) :
    x = e.clientX - canvasRect.left /\ y = e.clientY - canvasRect.top

\* C17 (pointer re-entry): a mousemove, or a touchmove with a touch, that
\* follows a mouseleave or touchend makes the pointer active at the event's
\* surface-local position and leaves mouse.vx and mouse.vy as they were; one
\* that follows another move sets them to the difference between the new
\* position and the previous one.
C17_PointerReentry ==
  [][\A i \in Instances :
       (lastTask' = "pointer" /\ lastPointer' \in PointerMoves /\ nEvents' # nEvents) =>
         /\ mouse'[i].active
         /\ mouse'[i].x # Null /\ mouse'[i].y # Null
         /\ EventPosition(mouse'[i].x[1], mouse'[i].y[1])
         /\ lastPointer \in PointerLeaves =>
              mouse'[i].vx = mouse[i].vx /\ mouse'[i].vy = mouse[i].vy
         /\ lastPointer \in PointerMoves =>
              /\ mouse'[i].vx = mouse'[i].x[1] - mouse[i].x[1]
              /\ mouse'[i].vy = mouse'[i].y[1] - mouse[i].y[1]]_vars

\* C17 witness: the pointer is active at the canvas centre with the velocity
\* of a move from the centre to the quarter point.  That move was followed by
\* a leave, and the move back in to the centre derived no velocity.
C17_Witness ==
  /\ lastPointer \in PointerMoves
  /\ nEvents >= 4
  /\ \A i \in Instances :
       /\ mouse[i].active
       /\ mouse[i].x = Some((width[i] * Milli) \div 2)
       /\ mouse[i].vx = (width[i] * Milli) \div 4 - (width[i] * Milli) \div 2

\* C19 (pointer state consistency): in every state each animator's
\* mouse.active is true exactly when its mouse.x and mouse.y are both
\* non-null, x and y are null together, and active is true exactly when the
\* last pointer event a handler acted on was a mousemove or a touchmove with a
\* touch.
C19_PointerConsistency ==
  \A i \in Instances :
    /\ mouse[i].active <=> (mouse[i].x # Null /\ mouse[i].y # Null)
    /\ (mouse[i].x = Null) <=> (mouse[i].y = Null)
    /\ mouse[i].active <=> lastPointer \in PointerMoves

\* C19 witness: a touchmove without touches has just been ignored, after a
\* move: the pointer is still active where the move put it.
C19_Witness ==
  /\ lastTask = "touch-ignored"
  /\ lastPointer \in PointerMoves
  /\ \A i \in Instances : mouse[i].active /\ mouse[i].x # Null

\* C18 (population band): once the script has run, each animator holds n
\* particles with T <= n <= 1.4 x T for the target T its last resize()
\* computed -- at init, from its debounce timer or through recreate() -- and
\* 30 <= n <= 132.
C18_PopulationBand ==
  \A i \in Instances :
    pc = "loaded" =>
      LET n == Len(particles[i])
          t == lastResize[i][2]
      IN  /\ t <= n
          /\ 5 * n <= 7 * t
          /\ 30 <= n /\ n <= 132

\* C18 witness: the second animator kept its 90 particles when its debounce
\* timer recomputed the target 70, and recreate() has now rebuilt it with 70;
\* the first animator still holds the 90 of its init.
C18_Witness ==
  /\ lastTask = "recreate"
  /\ burstResizes[2] = 1
  /\ lastResize[2] = <<0, 70>>
  /\ Len(particles[2]) = 70
  /\ Len(particles[1]) = 90

\* C20 (counter termination): once the interval of a '.stat-number' element
\* has cleared itself, the element displays its data-target; until then it
\* displays the number of ticks so far, one more per tick.
C20_CounterResult ==
  \A k \in 1..Len(stats) :
    /\ stats[k].text # Null => stats[k].text = Some(stats[k].count)
    /\ (pc = "loaded" /\ ~stats[k].running) => stats[k].text = Some(stats[k].target)


\* two characters that differ at most in case
SameLetter(c, d) == c = d \/ {c, d} = {"a", "A"} \/ {c, d} = {"b", "B"}

\* text occurs in title when case is ignored
ContainsIgnoringCase(title, text) ==
  \E o \in 0..(Len(title) - Len(text)) :
    \A j \in 1..Len(text) : SameLetter(title[o + j], text[j])

\* C21: once a filter button has been clicked, after any further filter
\* clicks and search inputs exactly the last clicked button carries
\* 'active', and every card that is displayed belongs to that button's
\* category (or the button is 'all') and has a title that contains the
\* text of the search box, case ignored.
C21_FilterSearchConsistency ==
  projectUI.clicked # Null =>
    LET btn == projectUI.clicked[1]
    IN  /\ projectUI.active = {btn}
        /\ \A k \in 1..Len(projectCards) :
             projectUI.display[k] # "none" =>
               /\ filterBtns[btn] = "all" \/ projectCards[k].category = filterBtns[btn]
               /\ ContainsIgnoringCase(projectCards[k].title, projectUI.value)
=============================================================================
